---- MODULE Spec2Model ----
(***************************************************************************)
(* Model of SafeRate/mortgage-marketplace: setup.ts (ledger operations,    *)
(* the executeTransaction retrier, makeTokenSymbol) and the simulate       *)
(* driver that imports it.                                                 *)
(***************************************************************************)
EXTENDS Integers, Sequences, FiniteSets, TLC

VARIABLES
    mode,      \* which program runs: "setup" (setup.ts alone), "driver" (simulate importing setup.ts), "call" (one executeTransaction call), "symbol" (one makeTokenSymbol call), "user" (one createUser call)
    task,      \* per task: the call it is in (idx, ost, step), the error its catch block caught, its locals and its step history
    frame,     \* per task: the activation of executeTransaction (epc, retries, ret, thrown)
    env,       \* process.env: the entries createUser writes
    hist,      \* history of the observed executeTransaction call: counts of sign and execute calls, the last outcome
    symName,   \* makeTokenSymbol: the argument
    symbol,    \* makeTokenSymbol: the result
    symPc,     \* makeTokenSymbol: position of the call
    user       \* the observed createUser call: its argument, position, locals, result, and process.env before it

vars == <<mode, task, frame, env, hist, symName, symbol, symPc, user>>

(***************************************************************************)
(* Bounds                                                                  *)
(***************************************************************************)
MaxNameLen == 5

NumResp == 2

(***************************************************************************)
(* Characters and strings.  A string is a sequence of characters; "sz"     *)
(* stands for the letter sharp s, whose upper-cased form is two letters.   *)
(***************************************************************************)
Chars == {"a", "b", "A", "1", " ", "sz"}

Max(a, b) == IF a >= b THEN a ELSE b

\* String.prototype.toUpperCase on one character
ToUpperChar(c) ==
    CASE c = "a" -> <<"A">>
      [] c = "b" -> <<"B">>
      [] c = "sz" -> <<"S", "S">>
      [] OTHER -> <<c>>

RECURSIVE toUpperCase(_)
toUpperCase(s) ==
    IF s = <<>> THEN <<>> ELSE ToUpperChar(Head(s)) \o toUpperCase(Tail(s))

\* tokenName.split(' '): the pieces between single spaces, empty pieces kept
RECURSIVE SplitFrom(_, _)
SplitFrom(s, cur) ==
    IF s = <<>> THEN <<cur>>
    ELSE IF Head(s) = " " THEN <<cur>> \o SplitFrom(Tail(s), <<>>)
    ELSE SplitFrom(Tail(s), Append(cur, Head(s)))

split(s) == SplitFrom(s, <<>>)

\* words.map(word => word[0]).join(''): an empty word gives undefined, joined as ''
RECURSIVE FirstLetters(_)
FirstLetters(words) ==
    IF words = <<>> THEN <<>>
    ELSE (IF Head(words) = <<>> THEN <<>> ELSE <<Head(Head(words))>>)
         \o FirstLetters(Tail(words))

\* the test of the inner loop: word[i] === word[i].toUpperCase()
IsHump(c) == <<c>> = ToUpperChar(c)

\* for (let i = 1; i < word.length; i++) if (...) symbol += word[i]
RECURSIVE HumpsOfWordFrom(_, _)
HumpsOfWordFrom(word, i) ==
    IF i > Len(word) THEN <<>>
    ELSE (IF IsHump(word[i]) THEN <<word[i]>> ELSE <<>>) \o HumpsOfWordFrom(word, i + 1)

\* variant of Humps: the inner loop started at i = 0
RECURSIVE HumpsFromZero(_)
HumpsFromZero(words) ==
    IF words = <<>> THEN <<>>
    ELSE HumpsOfWordFrom(Head(words), 1) \o HumpsFromZero(Tail(words))

RECURSIVE Humps(_)
Humps(words) ==
    IF words = <<>> THEN <<>>
    ELSE HumpsOfWordFrom(Head(words), 2) \o Humps(Tail(words))

\* while (symbol.length < 3) symbol += 'X'
RECURSIVE PadX(_)
PadX(s) == IF Len(s) < 3 THEN PadX(Append(s, "X")) ELSE s

makeTokenSymbol(tokenName) ==
    LET words == split(tokenName)
    IN  toUpperCase(PadX(FirstLetters(words) \o Humps(words)))

(***************************************************************************)
(* Errors and step outcomes.  An error value is what a rejected SDK call   *)
(* throws: isError is `err instanceof Error`, text is the set of status    *)
(* words its message (and so its toString()) contains.                     *)
(***************************************************************************)
MAX_RETRIES == 20

NoErr == [isError |-> FALSE, text |-> {}]

BusyError == [isError |-> TRUE, text |-> {"BUSY"}]

OtherError == [isError |-> TRUE, text |-> {"INVALID_SIGNATURE"}]

NonErrorBusy == [isError |-> FALSE, text |-> {"BUSY"}]

AlreadyAssociated == [isError |-> TRUE, text |-> {"TOKEN_ALREADY_ASSOCIATED_TO_ACCOUNT"}]

\* new Error(`Transaction failed after ${MAX_RETRIES} attempts`)
ExhaustedError == [isError |-> TRUE, text |-> {"Transaction failed after 20 attempts"}]

StepErrors == {BusyError, OtherError, NonErrorBusy, AlreadyAssociated}

Responses == 1..NumResp

NoResp == 0

Ok(r) == [ok |-> TRUE, resp |-> r, err |-> NoErr]

Fail(e) == [ok |-> FALSE, resp |-> NoResp, err |-> e]

\* outcomes of an awaited SDK call whose value the model does not follow
AwaitOutcomes == {Ok(NoResp)} \cup {Fail(e) : e \in StepErrors}

\* outcomes of `await transaction.sign(key)`
SignOutcomes == AwaitOutcomes

\* outcomes of `await txSign.execute(client)`
ExecuteOutcomes == {Ok(r) : r \in Responses} \cup {Fail(e) : e \in StepErrors}

(***************************************************************************)
(* executeTransaction                                                      *)
(***************************************************************************)
IdleFrame == [epc |-> "idle", retries |-> 0, ret |-> NoResp, thrown |-> NoErr]

\* err instanceof Error && err.toString().includes('BUSY')
IsBusy(err) == err.isError /\ "BUSY" \in err.text

\* variant of LoopTest: the loop test written with <=
LoopTestOffByOne(fr) ==
    IF fr.retries <= MAX_RETRIES
    THEN [fr EXCEPT !.epc = "sign"]
    ELSE [fr EXCEPT !.epc = "thrown", !.thrown = ExhaustedError]

\* while (retries < MAX_RETRIES) { ... }  throw new Error(...)
LoopTest(fr) ==
    IF fr.retries < MAX_RETRIES
    THEN [fr EXCEPT !.epc = "sign"]
    ELSE [fr EXCEPT !.epc = "thrown", !.thrown = ExhaustedError]

\* variant of Catch: every error is retried
CatchRetryAll(fr, err) == LoopTest([fr EXCEPT !.retries = @ + 1])

\* variant of Catch: the busy branch forgets retries++
CatchNoIncrement(fr, err) ==
    IF IsBusy(err)
    THEN LoopTest(fr)
    ELSE [fr EXCEPT !.epc = "thrown", !.thrown = err]

\* variant of Catch: the busy error itself is thrown once the retries are used up
CatchThrowOnExceed(fr, err) ==
    IF IsBusy(err) /\ fr.retries + 1 < MAX_RETRIES
    THEN LoopTest([fr EXCEPT !.retries = @ + 1])
    ELSE [fr EXCEPT !.epc = "thrown", !.thrown = err]

\* catch (err) { if (busy) { retries++ } else { throw err } }, then the loop test
Catch(fr, err) ==
    IF IsBusy(err)
    THEN LoopTest([fr EXCEPT !.retries = @ + 1])
    ELSE [fr EXCEPT !.epc = "thrown", !.thrown = err]

\* let retries = 0; and the first loop test
Enter == LoopTest(IdleFrame)

\* variant of Sign: a failed sign goes on to execute
SignIgnoreFailure(fr, out) == [fr EXCEPT !.epc = "execute"]

\* const txSign = await transaction.sign(key);
Sign(fr, out) ==
    IF out.ok THEN [fr EXCEPT !.epc = "execute"] ELSE Catch(fr, out.err)

\* const txSubmit = await txSign.execute(client); return txSubmit;
Execute(fr, out) ==
    IF out.ok THEN [fr EXCEPT !.epc = "returned", !.ret = out.resp] ELSE Catch(fr, out.err)

Terminal(fr) == fr.epc \in {"returned", "thrown"}

(***************************************************************************)
(* The operations of setup.ts as sequences of steps.  A step is one SDK    *)
(* call that is awaited (or one call of executeTransaction); group is the  *)
(* ledger transaction the step belongs to; kind "submit" is the step that  *)
(* submits the transaction, kind "retrier" submits it through              *)
(* executeTransaction.                                                     *)
(***************************************************************************)
St(n, k, g) == [name |-> n, kind |-> k, group |-> g]

CreateUserSteps ==
    << St("user.generate", "generate", "account"),
       St("user.execute", "submit", "account"),
       St("user.receipt", "userReceipt", "account") >>

SoulboundTail ==
    << St("create.sign", "plain", "token"),
       St("create.execute", "submit", "token"),
       St("create.receipt", "plain", "token"),
       St("info.query", "plain", "query"),
       St("mint.sign", "plain", "mint"),
       St("mint.execute", "submit", "mint"),
       St("mint.receipt", "plain", "mint"),
       St("assoc.sign", "plain", "associate"),
       St("assoc.retrier", "retrier", "associate"),
       St("assoc.receipt", "plain", "associate"),
       St("balance.treasury", "plain", "query"),
       St("balance.account", "plain", "query"),
       St("transfer.sign", "plain", "transfer"),
       St("transfer.retrier", "retrier", "transfer"),
       St("transfer.receipt", "plain", "transfer"),
       St("after.treasury", "plain", "query"),
       St("after.account", "plain", "query") >>

\* variant of SoulboundSteps: the transfer placed before the association
SoulboundStepsTransferFirst ==
    CreateUserSteps \o
    << St("create.sign", "plain", "token"),
       St("create.execute", "submit", "token"),
       St("create.receipt", "plain", "token"),
       St("info.query", "plain", "query"),
       St("mint.sign", "plain", "mint"),
       St("mint.execute", "submit", "mint"),
       St("mint.receipt", "plain", "mint"),
       St("transfer.sign", "plain", "transfer"),
       St("transfer.retrier", "retrier", "transfer"),
       St("transfer.receipt", "plain", "transfer"),
       St("assoc.sign", "plain", "associate"),
       St("assoc.retrier", "retrier", "associate"),
       St("assoc.receipt", "plain", "associate"),
       St("balance.treasury", "plain", "query"),
       St("balance.account", "plain", "query"),
       St("after.treasury", "plain", "query"),
       St("after.account", "plain", "query") >>

\* createSoulboundTokens: createUser, then the rest
SoulboundSteps == CreateUserSteps \o SoulboundTail

NftSteps ==
    << St("create.sign", "plain", "token"),
       St("create.execute", "submit", "token"),
       St("create.receipt", "plain", "token"),
       St("mint.sign", "plain", "mint"),
       St("mint.retrier", "retrier", "mint"),
       St("mint.receipt", "plain", "mint"),
       St("balance.treasury", "plain", "query") >>

FungibleSteps ==
    << St("create.sign", "plain", "token"),
       St("create.execute", "submit", "token"),
       St("create.receipt", "plain", "token"),
       St("balance.treasury", "plain", "query"),
       St("assoc.sign", "plain", "associate"),
       St("assoc.execute", "submit", "associate"),
       St("assoc.receipt", "plain", "associate") >>

StepsOf(op) ==
    CASE op = "createSoulboundTokens" -> SoulboundSteps
      [] op = "createNft" -> NftSteps
      [] op = "createFungibleToken" -> FungibleSteps

\* (error as Error).message?.includes(word)
MessageIncludes(err, word) == err.isError /\ word \in err.text

\* variant of OpCatch: every catch block rethrows
OpCatchRethrowAll(op, err) == "threw"

\* the catch block of each operation: "completed" when it swallows the error,
\* "threw" when it rethrows it
OpCatch(op, err) ==
    CASE op = "createSoulboundTokens" -> "completed"
      [] op = "createNft" -> "threw"
      [] op = "createFungibleToken" ->
            IF MessageIncludes(err, "TOKEN_ALREADY_ASSOCIATED_TO_ACCOUNT")
            THEN "completed" ELSE "threw"

\* the catch block of createUser: log and rethrow
UserCatch(err) == "threw"

(***************************************************************************)
(* The two tasks of a run: "mod" is the module body of setup.ts, whose     *)
(* last statement calls createNft without awaiting it; "sim" is simulate() *)
(* of the driver, which awaits its calls one after the other.              *)
(***************************************************************************)
Tasks == {"mod", "sim"}

Call(o, n) == [op |-> o, name |-> n]

ModProgram == << Call("createNft", "Loan beneficiary token") >>

SimProgram ==
    << Call("createSoulboundTokens", "Safe Rate"),
       Call("createSoulboundTokens", "Safe Rate"),
       Call("createSoulboundTokens", "IntelliCredit"),
       Call("createSoulboundTokens", "First Title"),
       Call("createNft", "Loan beneficiary token"),
       Call("createFungibleToken", "Principal non interest outstanding") >>

Program(t) == IF t = "mod" THEN ModProgram ELSE SimProgram

\* entityName.toUpperCase() for the names the programs pass
UpperName(n) ==
    CASE n = "Safe Rate" -> "SAFE RATE"
      [] n = "IntelliCredit" -> "INTELLICREDIT"
      [] n = "First Title" -> "FIRST TITLE"
      [] n = "safe rate" -> "SAFE RATE"
      [] OTHER -> n

Entities == {"SAFE RATE", "INTELLICREDIT", "FIRST TITLE"}

EnvKeys == Entities \X {"PRIVATE_KEY", "ACCOUNT_ID"}

Unset == <<>>

\* the key PrivateKey.generate() returns in the idx-th call of a task, and the
\* account id the receipt of that call's account creation carries
FreshKey(t, i) == <<"key", t, i>>

FreshAccount(t, i) == <<"account", t, i>>

IdleTask ==
    [idx |-> 1, ost |-> "idle", step |-> 1, caught |-> NoErr, userOut |-> "none",
     privateKey |-> <<>>, okSteps |-> {}, submitted |-> {}]

\* '' : what `receipt.accountId?.toString() || ""` gives for a receipt without account id
EmptyString == <<"">>

\* a receipt without account id
NoAccount == <<"account", "none">>

\* const newAccountId = receipt.accountId?.toString() || "";
NewAccountId(acct) == IF acct = NoAccount THEN EmptyString ELSE acct

\* variant of StoreUser: the two values stored under each other's key
StoreUserSwapped(e, entityName, key, acct) ==
    [e EXCEPT ![<<UpperName(entityName), "PRIVATE_KEY">>] = acct,
              ![<<UpperName(entityName), "ACCOUNT_ID">>] = key]

\* process.env[`${entityName.toUpperCase()}_PRIVATE_KEY`] = privateKey.toString();
\* process.env[`${entityName.toUpperCase()}_ACCOUNT_ID`] = newAccountId;
StoreUser(e, entityName, key, acct) ==
    [e EXCEPT ![<<UpperName(entityName), "PRIVATE_KEY">>] = key,
              ![<<UpperName(entityName), "ACCOUNT_ID">>] = acct]

IdleUser ==
    [pc |-> "idle", entityName |-> "", privateKey |-> <<>>,
     ret |-> [newAccountId |-> <<>>, PKEY |-> <<>>],
     failed |-> NoErr, thrown |-> NoErr, env0 |-> <<>>]

IdleHist ==
    [signCount |-> 0, execCount |-> 0, failCount |-> 0, busyCount |-> 0,
     att |-> <<>>, lastErr |-> NoErr, lastResp |-> NoResp]

CurCall(t) == Program(t)[task[t].idx]

CurStep(t) == StepsOf(CurCall(t).op)[task[t].step]

Running(t) == task[t].ost = "running"

\* the step succeeded: go on to the next statement, or return normally after the last
Advance(tk, op, st) ==
    [tk EXCEPT !.okSteps = @ \cup {st.name},
               !.step = @ + 1,
               !.userOut = IF st.name = "user.receipt" THEN "returned" ELSE @,
               !.ost = IF tk.step = Len(StepsOf(op)) THEN "completed" ELSE @]

\* the step failed with err: control goes to the enclosing catch blocks
OnFailure(tk, op, st, err) ==
    [tk EXCEPT !.caught = err,
               !.userOut = IF st.group = "account" THEN UserCatch(err) ELSE @,
               !.ost = OpCatch(op, err)]

(***************************************************************************)
(* A run of setup.ts alone or of the simulate driver                       *)
(***************************************************************************)
Init ==
    /\ mode \in {"setup", "driver"}
    /\ task = [t \in Tasks |-> IdleTask]
    /\ frame = [t \in Tasks |-> IdleFrame]
    /\ env = [k \in EnvKeys |-> Unset]
    /\ hist = IdleHist
    /\ symName = <<>>
    /\ symbol = <<>>
    /\ symPc = "idle"
    /\ user = IdleUser

Started(t) == task[t].idx > 1 \/ task[t].ost # "idle"

\* the task calls the next operation of its program; the import of setup.ts runs the
\* module body (and its createNft call) before the driver calls simulate()
Start(t) ==
    /\ mode \in {"setup", "driver"}
    /\ t = "sim" => (mode = "driver" /\ Started("mod"))
    /\ task[t].ost = "idle"
    /\ task[t].idx <= Len(Program(t))
    /\ task' = [task EXCEPT ![t] = [IdleTask EXCEPT !.idx = task[t].idx, !.ost = "running"]]
    /\ UNCHANGED <<mode, frame, env, hist, symName, symbol, symPc, user>>

\* an awaited SDK call other than the account-creation receipt
PlainStep(t) ==
    /\ Running(t)
    /\ CurStep(t).kind \in {"plain", "submit", "generate"}
    /\ \E out \in AwaitOutcomes :
         LET st == CurStep(t)
             op == CurCall(t).op
             tk == [task[t] EXCEPT
                      !.submitted = IF st.kind = "submit" THEN @ \cup {st.group} ELSE @,
                      !.privateKey = IF st.kind = "generate" /\ out.ok
                                     THEN FreshKey(t, task[t].idx) ELSE @]
         IN  task' = [task EXCEPT ![t] = IF out.ok THEN Advance(tk, op, st)
                                         ELSE OnFailure(tk, op, st, out.err)]
    /\ UNCHANGED <<mode, frame, env, hist, symName, symbol, symPc, user>>

\* createUser: await txResponse.getReceipt(client), then the two writes to process.env
UserReceipt(t) ==
    /\ Running(t)
    /\ CurStep(t).kind = "userReceipt"
    /\ \E out \in AwaitOutcomes :
         LET st == CurStep(t)
             op == CurCall(t).op
         IN  IF out.ok
             THEN /\ task' = [task EXCEPT ![t] = Advance(task[t], op, st)]
                  /\ env' = StoreUser(env, CurCall(t).name, task[t].privateKey,
                                      NewAccountId(FreshAccount(t, task[t].idx)))
             ELSE /\ task' = [task EXCEPT ![t] = OnFailure(task[t], op, st, out.err)]
                  /\ env' = env
    /\ UNCHANGED <<mode, frame, hist, symName, symbol, symPc, user>>

\* the operation calls executeTransaction
RetrierEnter(t) ==
    /\ Running(t)
    /\ CurStep(t).kind = "retrier"
    /\ frame[t].epc = "idle"
    /\ frame' = [frame EXCEPT ![t] = Enter]
    /\ UNCHANGED <<mode, task, env, hist, symName, symbol, symPc, user>>

\* executeTransaction went from its frame to f2: the operation resumes when it returned or threw
Resume(t, f2, sub) ==
    LET st == CurStep(t)
        op == CurCall(t).op
        tk == [task[t] EXCEPT !.submitted = IF sub THEN @ \cup {st.group} ELSE @]
    IN  /\ task' = [task EXCEPT ![t] =
                      IF f2.epc = "returned" THEN Advance(tk, op, st)
                      ELSE IF f2.epc = "thrown" THEN OnFailure(tk, op, st, f2.thrown)
                      ELSE tk]
        /\ frame' = [frame EXCEPT ![t] = IF Terminal(f2) THEN IdleFrame ELSE f2]

RetrierSign(t) ==
    /\ Running(t)
    /\ CurStep(t).kind = "retrier"
    /\ frame[t].epc = "sign"
    /\ \E out \in SignOutcomes : Resume(t, Sign(frame[t], out), FALSE)
    /\ UNCHANGED <<mode, env, hist, symName, symbol, symPc, user>>

RetrierExecute(t) ==
    /\ Running(t)
    /\ CurStep(t).kind = "retrier"
    /\ frame[t].epc = "execute"
    /\ \E out \in ExecuteOutcomes : Resume(t, Execute(frame[t], out), TRUE)
    /\ UNCHANGED <<mode, env, hist, symName, symbol, symPc, user>>

\* the call is over.  simulate() goes on to its next statement, which calls the next
\* operation, after a normal completion, and leaves through its catch block after a
\* rejection; nothing awaits the promise of the module-level call
NextIdx(t) ==
    IF t = "sim" /\ task[t].ost = "threw" THEN Len(Program(t)) + 1 ELSE task[t].idx + 1

Settle(t) ==
    /\ task[t].ost \in {"completed", "threw"}
    /\ task' = [task EXCEPT ![t] =
                  [IdleTask EXCEPT !.idx = NextIdx(t),
                                   !.ost = IF NextIdx(t) <= Len(Program(t))
                                           THEN "running" ELSE "idle"]]
    /\ UNCHANGED <<mode, frame, env, hist, symName, symbol, symPc, user>>

Next ==
    \E t \in Tasks :
        \/ Start(t)
        \/ PlainStep(t)
        \/ UserReceipt(t)
        \/ RetrierEnter(t)
        \/ RetrierSign(t)
        \/ RetrierExecute(t)
        \/ Settle(t)

Spec == Init /\ [][Next]_vars

(***************************************************************************)
(* One call of executeTransaction, observed: every sign and execute step   *)
(* may succeed or fail with any error                                      *)
(***************************************************************************)
Caller == "mod"

CallInit ==
    /\ mode = "call"
    /\ task = [t \in Tasks |-> IdleTask]
    /\ frame = [t \in Tasks |-> IdleFrame]
    /\ env = [k \in EnvKeys |-> Unset]
    /\ hist = IdleHist
    /\ symName = <<>>
    /\ symbol = <<>>
    /\ symPc = "idle"
    /\ user = IdleUser

\* the observer's counters stop at one more than the largest count the loop allows
CountCap == MAX_RETRIES + 1

Count(n) == IF n < CountCap THEN n + 1 ELSE n

\* what an observer of the call records of a step and its outcome
Observe(h, what, out) ==
    [h EXCEPT
       !.signCount = IF what = "sign" THEN Count(@) ELSE @,
       !.execCount = IF what = "execute" THEN Count(@) ELSE @,
       !.failCount = IF out.ok THEN @ ELSE Count(@),
       !.busyCount = IF ~out.ok /\ out.err.isError /\ "BUSY" \in out.err.text
                     THEN Count(@) ELSE @,
       !.att = (IF what = "sign" THEN <<>> ELSE @) \o <<<<what, out.ok>>>>,
       !.lastErr = IF out.ok THEN @ ELSE out.err,
       !.lastResp = IF what = "execute" /\ out.ok THEN out.resp ELSE @]

CallEnter ==
    /\ mode = "call"
    /\ frame[Caller].epc = "idle"
    /\ frame' = [frame EXCEPT ![Caller] = Enter]
    /\ UNCHANGED <<mode, task, env, hist, symName, symbol, symPc, user>>

CallSign ==
    /\ mode = "call"
    /\ frame[Caller].epc = "sign"
    /\ \E out \in SignOutcomes :
         /\ frame' = [frame EXCEPT ![Caller] = Sign(frame[Caller], out)]
         /\ hist' = Observe(hist, "sign", out)
    /\ UNCHANGED <<mode, task, env, symName, symbol, symPc, user>>

CallExecute ==
    /\ mode = "call"
    /\ frame[Caller].epc = "execute"
    /\ \E out \in ExecuteOutcomes :
         /\ frame' = [frame EXCEPT ![Caller] = Execute(frame[Caller], out)]
         /\ hist' = Observe(hist, "execute", out)
    /\ UNCHANGED <<mode, task, env, symName, symbol, symPc, user>>

CallNext == CallEnter \/ CallSign \/ CallExecute

CallSpec == CallInit /\ [][CallNext]_vars

\* every sign and execute step that was started completes
FairCallSpec == CallSpec /\ WF_vars(CallNext)

(***************************************************************************)
(* One call of createUser, observed, on any of the names and with any      *)
(* entries left in process.env by earlier calls                            *)
(***************************************************************************)
UserNames == {"Safe Rate", "safe rate", "IntelliCredit", "First Title"}

\* what an earlier call of createUser left for one entity: nothing, or a key with an
\* account id, or a key with ''
EarlierEntries ==
    { [key |-> Unset, acct |-> Unset],
      [key |-> FreshKey(Caller, 0), acct |-> FreshAccount(Caller, 0)],
      [key |-> FreshKey(Caller, 0), acct |-> EmptyString] }

PriorEnvs ==
    { [k \in EnvKeys |-> IF k[2] = "PRIVATE_KEY" THEN f[k[1]].key ELSE f[k[1]].acct] :
        f \in [Entities -> EarlierEntries] }

UserInit ==
    /\ mode = "user"
    /\ task = [t \in Tasks |-> IdleTask]
    /\ frame = [t \in Tasks |-> IdleFrame]
    /\ env \in PriorEnvs
    /\ hist = IdleHist
    /\ symName = <<>>
    /\ symbol = <<>>
    /\ symPc = "idle"
    /\ \E n \in UserNames : user = [IdleUser EXCEPT !.pc = "generate", !.entityName = n, !.env0 = env]

\* a step of createUser failed: its catch block
UserFail(u, err) == [u EXCEPT !.failed = err, !.pc = UserCatch(err), !.thrown = err]

\* const privateKey = await PrivateKey.generate();
UserGenerate ==
    /\ mode = "user"
    /\ user.pc = "generate"
    /\ \E out \in AwaitOutcomes :
         user' = IF out.ok
                 THEN [user EXCEPT !.privateKey = FreshKey(Caller, 1), !.pc = "execute"]
                 ELSE UserFail(user, out.err)
    /\ UNCHANGED <<mode, task, frame, env, hist, symName, symbol, symPc>>

\* const txResponse = await transaction.execute(client);
UserExecute ==
    /\ mode = "user"
    /\ user.pc = "execute"
    /\ \E out \in AwaitOutcomes :
         user' = IF out.ok THEN [user EXCEPT !.pc = "receipt"] ELSE UserFail(user, out.err)
    /\ UNCHANGED <<mode, task, frame, env, hist, symName, symbol, symPc>>

\* the receipts a successful getReceipt can give
Receipts == {FreshAccount(Caller, 1), NoAccount}

\* const receipt = await txResponse.getReceipt(client); the writes to process.env;
\* return { newAccountId, PKEY };
UserGetReceipt ==
    /\ mode = "user"
    /\ user.pc = "receipt"
    /\ \/ \E acct \in Receipts :
             /\ env' = StoreUser(env, user.entityName, user.privateKey, NewAccountId(acct))
             /\ user' = [user EXCEPT !.pc = "returned",
                                     !.ret = [newAccountId |-> NewAccountId(acct),
                                              PKEY |-> user.privateKey]]
       \/ \E e \in StepErrors :
             /\ env' = env
             /\ user' = UserFail(user, e)
    /\ UNCHANGED <<mode, task, frame, hist, symName, symbol, symPc>>

UserNext == UserGenerate \/ UserExecute \/ UserGetReceipt

UserSpec == UserInit /\ [][UserNext]_vars

(***************************************************************************)
(* One call of makeTokenSymbol on any name of at most MaxNameLen characters *)
(***************************************************************************)
Names == UNION {[1..n -> Chars] : n \in 0..MaxNameLen}

SymInit ==
    /\ mode = "symbol"
    /\ task = [t \in Tasks |-> IdleTask]
    /\ frame = [t \in Tasks |-> IdleFrame]
    /\ env = [k \in EnvKeys |-> Unset]
    /\ hist = IdleHist
    /\ symName \in Names
    /\ symbol = <<>>
    /\ symPc = "start"
    /\ user = IdleUser

SymCall ==
    /\ mode = "symbol"
    /\ symPc = "start"
    /\ symbol' = makeTokenSymbol(symName)
    /\ symPc' = "done"
    /\ UNCHANGED <<mode, task, frame, env, hist, symName, user>>

\* makeTokenSymbol called on the symbol it returned
SymReapply ==
    /\ mode = "symbol"
    /\ symPc = "done"
    /\ symName' = symbol
    /\ symbol' = makeTokenSymbol(symbol)
    /\ symPc' = "redone"
    /\ UNCHANGED <<mode, task, frame, env, hist, user>>

SymNext == SymCall \/ SymReapply

SymSpec == SymInit /\ [][SymNext]_vars

(***************************************************************************)
(* Properties of executeTransaction, checked under CallSpec                *)
(***************************************************************************)
TheFrame == frame[Caller]

\* a transient busy failure: an Error whose text contains BUSY
BusyFailure(e) == e.isError /\ "BUSY" \in e.text

\* C1 as stated: a call of executeTransaction that throws has made at least 1 and at
\* most 20 calls of txSign.execute.
C1_SubmissionsOriginal ==
    TheFrame.epc = "thrown" => hist.execCount \in 1..MAX_RETRIES

\* C1 amended: a call of executeTransaction that throws has made at least 1 and at most
\* 20 attempts (calls of transaction.sign) and at most 20 calls of txSign.execute, none
\* of them in an attempt that was not signed.
C1_Attempts ==
    TheFrame.epc = "thrown" =>
        /\ hist.signCount \in 1..MAX_RETRIES
        /\ hist.execCount \in 0..MAX_RETRIES
        /\ hist.execCount <= hist.signCount

C1_Witness ==
    /\ TheFrame.epc = "thrown"
    /\ hist.signCount = MAX_RETRIES
    /\ hist.execCount = 0

\* C2: a sign or execute failure that is not a busy failure leaves the call at once as
\* the same error, with the retry counter unchanged and no step after it; a busy failure
\* adds exactly one to the counter and is followed by another attempt while the counter
\* is below 20.
C2_Propagation ==
    [][ LET f == TheFrame
            g == frame'[Caller]
            failedNow == hist'.failCount = hist.failCount + 1
        IN  /\ (failedNow /\ ~BusyFailure(hist'.lastErr)) =>
                  (g.epc = "thrown" /\ g.thrown = hist'.lastErr /\ g.retries = f.retries)
            /\ (failedNow /\ BusyFailure(hist'.lastErr)) =>
                  (g.retries = f.retries + 1 /\ (g.retries < MAX_RETRIES => g.epc = "sign"))
            /\ f.epc = "thrown" => (g = f /\ hist' = hist) ]_vars

C2_Witness ==
    /\ TheFrame.epc = "thrown"
    /\ TheFrame.thrown = OtherError
    /\ TheFrame.retries = 3
    /\ hist.busyCount = 3

C4_Terminates == <>Terminal(TheFrame)

C4_Witness ==
    /\ Terminal(TheFrame)
    /\ hist.busyCount = MAX_RETRIES

\* the shapes an attempt can have: the outcome of sign, then that of execute
AttemptShapes ==
    { <<>>,
      << <<"sign", TRUE>> >>,
      << <<"sign", FALSE>> >>,
      << <<"sign", TRUE>>, <<"execute", TRUE>> >>,
      << <<"sign", TRUE>>, <<"execute", FALSE>> >> }

C9_State ==
    /\ hist.att \in AttemptShapes
    /\ (hist.att = << <<"sign", TRUE>>, <<"execute", TRUE>> >>) <=> TheFrame.epc = "returned"
    /\ TheFrame.epc = "returned" =>
          /\ TheFrame.ret = hist.lastResp
          /\ TheFrame.ret \in Responses
          /\ hist.signCount \in 1..MAX_RETRIES
          /\ hist.busyCount = hist.signCount - 1
          /\ hist.failCount = hist.busyCount
          /\ hist.execCount >= 1

\* C9: the first attempt whose sign and execute both succeed ends the call, which
\* returns the response of that execute after k-1 busy failures (k <= 20) and takes no
\* step afterwards; in every attempt sign comes before execute and execute is not called
\* when sign failed.
C9_Return ==
    /\ []C9_State
    /\ [][TheFrame.epc = "returned" => (frame' = frame /\ hist' = hist)]_vars

C9_Witness ==
    /\ TheFrame.epc = "returned"
    /\ hist.signCount = MAX_RETRIES
    /\ TheFrame.ret = NumResp

(***************************************************************************)
(* Properties of makeTokenSymbol, checked under SymSpec                    *)
(***************************************************************************)
\* the number of pieces that splitting on single spaces gives
NumWords(name) == 1 + Cardinality({i \in DOMAIN name : name[i] = " "})

IsUpperLetter(c) == c \in {"A", "B", "S", "X"}

IsLowerLetter(c) == c \in {"a", "b", "sz"}

\* position i of the name is the first character of a word
WordStart(name, i) == name[i] # " " /\ (i = 1 \/ name[i - 1] = " ")

\* position i of the name is inside a word, after its first character
Internal(name, i) == name[i] # " " /\ i > 1 /\ name[i - 1] # " "

NoInternalUpper(name) ==
    \A i \in DOMAIN name : Internal(name, i) => ~IsUpperLetter(name[i])

InternalUpper(name, i) == Internal(name, i) /\ IsUpperLetter(name[i])

\* the characters at the word starts (what = "start") or the internal uppercase letters
\* (what = "upper") of the name, in order
RECURSIVE Pick(_, _, _)
Pick(name, i, what) ==
    IF i > Len(name) THEN <<>>
    ELSE (IF (what = "start" /\ WordStart(name, i)) \/ (what = "upper" /\ InternalUpper(name, i))
          THEN <<name[i]>> ELSE <<>>) \o Pick(name, i + 1, what)

\* the symbol as documented: first letters, then internal uppercase letters, padded
\* with X to three characters, upper-cased
DocumentedSymbol(name) ==
    toUpperCase(PadX(Pick(name, 1, "start") \o Pick(name, 1, "upper")))

\* C5 as stated: for a name of N words without internal uppercase letters the symbol
\* has max(N, 3) characters.
C5_LengthOriginal ==
    (symPc = "done" /\ NoInternalUpper(symName)) =>
        Len(symbol) = Max(NumWords(symName), 3)

\* C6 as stated: the symbol is the upper-cased form of the first letters of the words,
\* then the internal uppercase letters of the words, then X padding up to three
\* characters; it has at least three characters and no lowercase letter.
C6_DocumentedOriginal ==
    symPc = "done" =>
        /\ symbol = DocumentedSymbol(symName)
        /\ Len(symbol) >= 3
        /\ \A i \in DOMAIN symbol : ~IsLowerLetter(symbol[i])

C12_Witness ==
    /\ symPc = "redone"
    /\ symbol = <<"S", "S", "A", "1">>

\* C12: makeTokenSymbol applied to a symbol it returned gives that symbol again.
C12_Idempotent == symPc = "redone" => symbol = symName

(***************************************************************************)
(* Properties of the operations, checked under Spec                        *)
(***************************************************************************)
InCall(t) == task[t].ost # "idle"

OpOf(t) == CurCall(t).op

Over(t) == task[t].ost \in {"completed", "threw"}

GroupOrder == <<"account", "token", "mint", "associate", "transfer">>

\* the steps that come before the submission of each ledger transaction
BeforeAccount == {"user.generate"}

BeforeToken == BeforeAccount \cup {"user.execute", "user.receipt", "create.sign"}

BeforeMint == BeforeToken \cup {"create.execute", "create.receipt", "info.query", "mint.sign"}

BeforeAssociate == BeforeMint \cup {"mint.execute", "mint.receipt", "assoc.sign"}

BeforeTransfer ==
    BeforeAssociate \cup
    {"assoc.retrier", "assoc.receipt", "balance.treasury", "balance.account", "transfer.sign"}

Before(g) ==
    CASE g = "account" -> BeforeAccount
      [] g = "token" -> BeforeToken
      [] g = "mint" -> BeforeMint
      [] g = "associate" -> BeforeAssociate
      [] g = "transfer" -> BeforeTransfer

C10_State ==
    \A t \in Tasks :
        (InCall(t) /\ OpOf(t) = "createSoulboundTokens") =>
            /\ task[t].submitted \subseteq {GroupOrder[i] : i \in DOMAIN GroupOrder}
            /\ \A g \in task[t].submitted : Before(g) \subseteq task[t].okSteps
            /\ \A i \in DOMAIN GroupOrder : \A j \in DOMAIN GroupOrder :
                  (j < i /\ GroupOrder[i] \in task[t].submitted) =>
                      GroupOrder[j] \in task[t].submitted

C10_Step ==
    \A t \in Tasks :
        (InCall(t) /\ OpOf(t) = "createSoulboundTokens" /\ task[t].caught # NoErr) =>
            /\ task'[t].submitted \subseteq task[t].submitted
            /\ task'[t].okSteps \subseteq task[t].okSteps
            /\ frame'[t] = IdleFrame

\* C10: in createSoulboundTokens a ledger transaction is submitted only after every
\* step before it succeeded, in the order account, token, mint, associate, transfer;
\* once a step failed nothing more is submitted or done in that call.
C10_Order == []C10_State /\ [][C10_Step]_vars

C10_Witness ==
    \E t \in Tasks :
        /\ InCall(t)
        /\ OpOf(t) = "createSoulboundTokens"
        /\ "transfer" \in task[t].submitted
        /\ task[t].ost = "completed"
        /\ task[t].caught = NoErr

(***************************************************************************)
(* Properties of createUser, checked under UserSpec                        *)
(***************************************************************************)
WrittenKeys(n) == {<<UpperName(n), "PRIVATE_KEY">>, <<UpperName(n), "ACCOUNT_ID">>}

C11_Witness ==
    /\ user.pc = "returned"
    /\ user.entityName = "safe rate"
    /\ user.env0[<<"SAFE RATE", "PRIVATE_KEY">>] = FreshKey(Caller, 0)
    /\ user.env0[<<"FIRST TITLE", "ACCOUNT_ID">>] = FreshAccount(Caller, 0)
    /\ user.ret.newAccountId = FreshAccount(Caller, 1)

\* C11: createUser changes process.env only on success: then the entries
\* <UPPERCASE(entityName)>_PRIVATE_KEY and <UPPERCASE(entityName)>_ACCOUNT_ID hold the
\* private key and the account id the call returns, whatever they held before, and every
\* other entry is as before; when a step fails the same error is rethrown and no entry
\* has changed.
C11_EnvOnSuccess ==
    /\ user.pc \in {"generate", "execute", "receipt", "threw"} => env = user.env0
    /\ user.pc = "threw" => (user.failed # NoErr /\ user.thrown = user.failed)
    /\ user.pc = "returned" =>
          /\ user.failed = NoErr
          /\ user.ret.PKEY = FreshKey(Caller, 1)
          /\ user.ret.newAccountId \in {FreshAccount(Caller, 1), EmptyString}
          /\ env[<<UpperName(user.entityName), "PRIVATE_KEY">>] = user.ret.PKEY
          /\ env[<<UpperName(user.entityName), "ACCOUNT_ID">>] = user.ret.newAccountId
          /\ \A k \in EnvKeys \ WrittenKeys(user.entityName) : env[k] = user.env0[k]

====
